---- MODULE Spec2Model ----
(***************************************************************************)
(* Model of the AI surveillance server (src/main.py) and of its behaviour  *)
(* analyzer (src/surveillance.py).                                         *)
(*                                                                         *)
(* Units.  The credibility score moves in steps of 0.5 (surveillance.py    *)
(* line 205) and the camera counter in steps of 0.5 (line 89), so both are *)
(* kept in half units: 200 stands for 100.0, 11 for 5.5.  Landmark         *)
(* coordinates are kept in hundredths: 10 stands for 0.1.  Wall-clock time *)
(* is kept in ticks, TicksPerPeriod of them in one 1/max_fps interval.     *)
(***************************************************************************)
EXTENDS Integers, Sequences, FiniteSets, TLC

(***************************************************************************)
(* Bounds of the model.                                                    *)
(***************************************************************************)
MaxFrames == 2
MaxTicks == 2
TicksPerPeriod == 2
MaxSteps == 12
MaxSuspicious == 4
ScenarioFrames == 4
MaxLog == 3
DispatchFrames == 3

(***************************************************************************)
(* Program constants.                                                      *)
(***************************************************************************)
max_fps == 10
HalvesPerPoint == 2
InitialScore == 100
MinScore == 20
MaxScore == 100
BlockedThreshold == 5
NoFaceThreshold == 10
BrightnessThreshold == 30
ContrastThreshold == 15
ErrorScore == 100

Min(a, b) == IF a < b THEN a ELSE b
Max(a, b) == IF a > b THEN a ELSE b

\* A score or counter written in points, in half units.
Pts(p) == p * HalvesPerPoint
\* The 0.5 of surveillance.py lines 89 and 205, in half units.
HalfPoint == HalvesPerPoint \div 2
\* Python's int() on a non-negative float: truncation.
PyInt(h) == h \div HalvesPerPoint

(***************************************************************************)
(* A decoded frame, described by what the external collaborators compute   *)
(* on it: cv2.cvtColor succeeding or raising, the grey-level mean and      *)
(* standard deviation, and the outcome of the three MediaPipe calls.       *)
(*   face / mv / ps : "found", "none" (no landmarks) or "raise"            *)
(*   hdiff          : nose_tip.x - eye_center_x                            *)
(*   tilt           : abs(left_ear.y - right_ear.y)                        *)
(*   lgap, rgap     : abs(wrist.y - mouth.y), left and right               *)
(*   shoulder       : mean shoulder height                                 *)
(***************************************************************************)
Frame(cvt, br, ct, face, hdiff, mv, tilt, lgap, rgap, ps, shoulder) ==
  [cvt_ok |-> cvt, brightness |-> br, contrast |-> ct,
   face |-> face, hdiff |-> hdiff,
   mv |-> mv, tilt |-> tilt, lgap |-> lgap, rgap |-> rgap,
   ps |-> ps, shoulder |-> shoulder]

(***************************************************************************)
(* BehaviorAnalyzer: the fields the scoring reads.  gaze_history and       *)
(* movement_history are appended to and never read, last_detection_time is *)
(* never read: they are left out.                                          *)
(***************************************************************************)
AnalyzerInit ==
  [credibility_score |-> Pts(InitialScore),
   camera_blocked_frames |-> 0,
   no_face_frames |-> 0]

\* surveillance.py 86: the frame is dark and flat.
IsDark(frame) ==
  frame.brightness < BrightnessThreshold /\ frame.contrast < ContrastThreshold

\* surveillance.py 86-89: the counter after one frame.
CameraCounterMutant(counter, dark) ==
  IF dark THEN counter + Pts(1) ELSE 0
CameraCounter(counter, dark) ==
  IF dark THEN counter + Pts(1) ELSE Max(0, counter - HalfPoint)

\* surveillance.py 91.
CameraBlocked(counter) == counter > Pts(BlockedThreshold)

\* surveillance.py 79-95.  The try block converts the frame that line 40
\* has already converted, so its except branch is not taken.
detect_camera_blocked(a, frame) ==
  LET c == CameraCounter(a.camera_blocked_frames, IsDark(frame))
  IN [state |-> [a EXCEPT !.camera_blocked_frames = c],
      ret |-> CameraBlocked(c)]

\* surveillance.py 97-135.
analyze_gazeMutant(a, frame) ==
  CASE frame.face = "raise" ->
         [state |-> a,
          ret |-> [looking_away |-> FALSE, direction |-> "center",
                   face_detected |-> FALSE]]
    [] frame.face = "found" ->
         [state |-> a,
          ret |-> [looking_away |-> (frame.hdiff > 10 \/ frame.hdiff < -10),
                   direction |-> IF frame.hdiff > 10 THEN "right"
                                 ELSE IF frame.hdiff < -10 THEN "left"
                                 ELSE "center",
                   face_detected |-> TRUE]]
    [] OTHER ->
         [state |-> [a EXCEPT !.no_face_frames = @ + 1],
          ret |-> [looking_away |-> FALSE, direction |-> "center",
                   face_detected |-> FALSE]]
analyze_gaze(a, frame) ==
  CASE frame.face = "raise" ->
         [state |-> a,
          ret |-> [looking_away |-> FALSE, direction |-> "center",
                   face_detected |-> FALSE]]
    [] frame.face = "found" ->
         [state |-> [a EXCEPT !.no_face_frames = 0],
          ret |-> [looking_away |-> (frame.hdiff > 10 \/ frame.hdiff < -10),
                   direction |-> IF frame.hdiff > 10 THEN "right"
                                 ELSE IF frame.hdiff < -10 THEN "left"
                                 ELSE "center",
                   face_detected |-> TRUE]]
    [] OTHER ->
         [state |-> [a EXCEPT !.no_face_frames = @ + 1],
          ret |-> [looking_away |-> FALSE, direction |-> "center",
                   face_detected |-> FALSE]]

\* surveillance.py 137-168.  A pose.process that raises is caught at line
\* 166: the neutral values of line 168 are returned.
analyze_movements(frame) ==
  CASE frame.mv = "raise" ->
         [suspicious_count |-> 0, head_movement |-> FALSE]
    [] frame.mv = "found" ->
         [suspicious_count |->
            (IF frame.tilt > 10 THEN 1 ELSE 0)
            + (IF frame.lgap < 15 \/ frame.rgap < 15 THEN 3 ELSE 0),
          head_movement |-> frame.tilt > 10]
    [] OTHER ->
         [suspicious_count |-> 0, head_movement |-> FALSE]

\* surveillance.py 170-188.  A pose.process that raises is caught at line
\* 186: stood_up False is returned.
analyze_posture(frame) ==
  CASE frame.ps = "raise" -> [stood_up |-> FALSE]
    [] frame.ps = "found" -> [stood_up |-> frame.shoulder < 30]
    [] OTHER -> [stood_up |-> FALSE]

\* surveillance.py 191-202: the deduction, in points.
DeductionMutant(no_face_frames, gaze, movement, posture, camera_blocked) ==
  (IF gaze.looking_away THEN 3 ELSE 0)
  + (IF movement.suspicious_count > 0 THEN movement.suspicious_count ELSE 0)
  + (IF posture.stood_up THEN 15 ELSE 0)
  + (IF camera_blocked THEN 10 ELSE 0)
  + (IF ~gaze.face_detected /\ no_face_frames > NoFaceThreshold THEN 5 ELSE 0)
Deduction(no_face_frames, gaze, movement, posture, camera_blocked) ==
  (IF gaze.looking_away THEN 3 ELSE 0)
  + (IF movement.suspicious_count > 0 THEN movement.suspicious_count * 2 ELSE 0)
  + (IF posture.stood_up THEN 15 ELSE 0)
  + (IF camera_blocked THEN 10 ELSE 0)
  + (IF ~gaze.face_detected /\ no_face_frames > NoFaceThreshold THEN 5 ELSE 0)

\* surveillance.py 204-205: the score after the regeneration test.
RegenerateMutant(score, deduction) ==
  IF deduction = 0 /\ score < Pts(MaxScore)
  THEN Min(Pts(MaxScore), score + Pts(1))
  ELSE score
Regenerate(score, deduction) ==
  IF deduction = 0 /\ score < Pts(MaxScore)
  THEN Min(Pts(MaxScore), score + HalfPoint)
  ELSE score

\* surveillance.py 190-207.
calculate_credibility_deduction(a, gaze, movement, posture, camera_blocked) ==
  LET d == Deduction(a.no_face_frames, gaze, movement, posture, camera_blocked)
  IN [state |-> [a EXCEPT !.credibility_score = Regenerate(@, d)],
      ret |-> d]

\* surveillance.py 51.
ApplyDeductionMutant(score, deduction) == score - Pts(deduction)
ApplyDeduction(score, deduction) == Max(Pts(MinScore), score - Pts(deduction))

\* surveillance.py 67-77: the result of the except branch.
ErrorResult ==
  [looking_away |-> FALSE, suspicious_movements |-> 0,
   person_stood_up |-> FALSE, camera_blocked |-> FALSE,
   credibility_score |-> ErrorScore, gaze_direction |-> "center",
   head_movement |-> FALSE, face_detected |-> FALSE, status |-> "error"]

\* surveillance.py 65-77: the except branch, entered with analyzer a.
AnalysisFailed(a) == [state |-> a, ret |-> ErrorResult]

\* surveillance.py 38-77.  cv2.cvtColor at line 40 is the one call of the
\* try block that can raise: it raises before any field is written.
analyze_behavior(a, frame) ==
  IF ~frame.cvt_ok
  THEN AnalysisFailed(a)
  ELSE
    LET cam == detect_camera_blocked(a, frame)
        gz == analyze_gaze(cam.state, frame)
        mvt == analyze_movements(frame)
        pst == analyze_posture(frame)
        ded == calculate_credibility_deduction(gz.state, gz.ret, mvt, pst, cam.ret)
        new == ApplyDeduction(ded.state.credibility_score, ded.ret)
    IN [state |-> [ded.state EXCEPT !.credibility_score = new],
        ret |-> [looking_away |-> gz.ret.looking_away,
                 suspicious_movements |-> mvt.suspicious_count,
                 person_stood_up |-> pst.stood_up,
                 camera_blocked |-> cam.ret,
                 credibility_score |-> PyInt(new),
                 gaze_direction |-> gz.ret.direction,
                 head_movement |-> mvt.head_movement,
                 face_detected |-> gz.ret.face_detected,
                 status |-> "analyzed"]]


(***************************************************************************)
(* The frames fed to the model.  FClean sits on every threshold from the   *)
(* harmless side: contrast 15 is not < 15, hdiff 10 is not > 10, tilt 10   *)
(* is not > 10, a wrist gap of 15 is not < 15, a shoulder height of 30 is  *)
(* not < 30.                                                               *)
(***************************************************************************)
FClean   == Frame(TRUE, 29, 15, "found", 10, "found", 10, 15, 15, "found", 30)
FAway    == Frame(TRUE, 120, 40, "found", 11, "found", 0, 50, 50, "found", 60)
FLeft    == Frame(TRUE, 120, 40, "found", -11, "none", 0, 50, 50, "none", 60)
FDrop20  == Frame(TRUE, 120, 40, "found", 11, "found", 11, 50, 50, "found", 29)
FWrist   == Frame(TRUE, 120, 40, "found", 0, "found", 11, 50, 14, "found", 60)
FDark    == Frame(TRUE, 29, 14, "found", 0, "found", 0, 50, 50, "found", 60)
FNoFace  == Frame(TRUE, 120, 40, "none", 0, "none", 0, 50, 50, "none", 60)
FGazeErr == Frame(TRUE, 120, 40, "raise", 0, "found", 0, 50, 50, "found", 60)
\* The pose model raises in analyze_movements, on a frame whose head tilt
\* and wrist would have counted 4; in analyze_posture, on a frame whose
\* shoulders would have counted as standing up.  Both look away.
FMoveErr == Frame(TRUE, 120, 40, "found", 11, "raise", 11, 50, 14, "found", 60)
FPoseErr == Frame(TRUE, 120, 40, "found", 11, "found", 0, 50, 50, "raise", 29)
FCvtFail == Frame(FALSE, 120, 40, "found", 11, "found", 11, 50, 14, "found", 29)

\* Frames of the analyzer stream.
StreamFrames == {FClean, FAway, FDrop20, FDark, FNoFace, FGazeErr, FMoveErr,
                 FPoseErr, FCvtFail}
\* Frames a session sends to the server.
SessionFrames == {FClean, FAway, FGazeErr, FMoveErr, FPoseErr, FCvtFail}

(***************************************************************************)
(* Python dicts as functions: the keys are the DOMAIN.                     *)
(***************************************************************************)
EmptyDict == [k \in {} |-> 0]
DictSet(d, key, v) == [k \in (DOMAIN d) \cup {key} |-> IF k = key THEN v ELSE d[k]]
DictPop(d, key) == [k \in (DOMAIN d) \ {key} |-> d[k]]
DictGet(d, key, default) == IF key \in DOMAIN d THEN d[key] ELSE default

RECURSIVE SumSeq(_)
SumSeq(q) == IF q = <<>> THEN 0 ELSE Head(q) + SumSeq(Tail(q))

(***************************************************************************)
(* The server, src/main.py.                                                *)
(***************************************************************************)
\* Two connections: websocket objects, numbered in the order they are opened.
Sessions == {1, 2}
\* Python's None.
None == "<None>"
EmployeeIds == {"E1", "E2"}

\* 1 / self.max_fps, in ticks; one second is max_fps * TicksPerPeriod ticks.
TicksPerSecond == max_fps * TicksPerPeriod
FramePeriod == TicksPerSecond \div max_fps
\* time.time() when the server starts: far more than a period after the epoch.
StartTime == TicksPerSecond

\* A message of the stream.  Text: json is "malformed" (json.loads raises),
\* "nondict" (valid JSON, not an object: data.get raises), "other" (an object
\* that is not type init), "init_noid" (type init without employee_id) or
\* "init" (type init with employee_id, which may be JSON null).  Bytes:
\* decodes tells whether cv2.imdecode returns an image.
Msg(kind, json, eid, decodes, image) ==
  [kind |-> kind, json |-> json, employee_id |-> eid,
   decodes |-> decodes, image |-> image]
TextMessages ==
  {Msg("text", j, None, FALSE, FClean) :
      j \in {"malformed", "nondict", "other", "init_noid"}}
  \cup {Msg("text", "init", e, FALSE, FClean) : e \in EmployeeIds \cup {None}}
FrameMessages ==
  {Msg("bytes", "", None, TRUE, f) : f \in SessionFrames}
  \cup {Msg("bytes", "", None, FALSE, FClean)}
Messages == TextMessages \cup FrameMessages

\* main.py 56-60: the rate gate with its write of last_frame_time.
GateStepMutant(lft, ws, t) ==
  LET last_time == DictGet(lft, ws, 0)
  IN [accept |-> ~(t - last_time < FramePeriod),
      last_frame_time |-> DictSet(lft, ws, t)]
GateStepLate(lft, ws, t) ==
  LET last_time == DictGet(lft, ws, 0)
  IN IF t - last_time < FramePeriod - 1
     THEN [accept |-> FALSE, last_frame_time |-> lft]
     ELSE [accept |-> TRUE, last_frame_time |-> DictSet(lft, ws, t)]
GateStep(lft, ws, t) ==
  LET last_time == DictGet(lft, ws, 0)
  IN IF t - last_time < FramePeriod
     THEN [accept |-> FALSE, last_frame_time |-> lft]
     ELSE [accept |-> TRUE, last_frame_time |-> DictSet(lft, ws, t)]

\* final_score = None of main.py 103: a fraction over no scores.
NoScore == [sum |-> 0, len |-> 0]

\* main.py 107: sum(scores) / len(scores), kept as the exact fraction.
FinalScore(scores) == [sum |-> SumSeq(scores), len |-> Len(scores)]

\* main.py 121: Python's round() of sum/len, ties to the even integer.
PyRound(sum, len) ==
  LET q == sum \div len
      r == sum % len
  IN IF 2 * r < len THEN q
     ELSE IF 2 * r > len THEN q + 1
     ELSE IF q % 2 = 0 THEN q ELSE q + 1

\* main.py 111: whether cleanup hands the score to send_score_to_backend.
ReportsFinalMutant(final_score, employee_id) == final_score # NoScore
ReportsFinal(final_score, employee_id) ==
  final_score # NoScore /\ employee_id # None

VARIABLES
  clients,            \* self.clients
  scores_per_client,  \* self.scores_per_client
  employee_ids,       \* self.employee_ids
  last_frame_time,    \* self.last_frame_time
  analyzer,           \* self.analyzer, the one BehaviorAnalyzer of the server
  now,                \* time.time()
  conn,               \* per connection: "new", "open" or "closed"
  arrived,            \* per connection: arrival time of its last binary message
  dispatched,         \* per connection: the results handed to safe_send, in order
  atClose,            \* per connection: what cleanup_client found and computed
  backend,            \* the send_score_to_backend tasks, in creation order
  outbox,             \* per connection: the state of each safe_send task, in
                      \* creation order: "pending", "sent", "ConnectionClosed"
                      \* or "error"
  log,                \* per connection: what the handler did with each message
                      \* and how its loop ended (history, kept by the logged
                      \* server only)
  nframes,            \* analyzer stream: frames fed
  result,             \* analyzer stream: the last return value of analyze_behavior
  darkRun,            \* analyzer stream: dark frames in a row, up to the last analysed one
  cleanRun,           \* analyzer stream: clean frames in a row, up to the last analysed one
  runBase,            \* analyzer stream: the score when the clean run began
  ded                 \* one call of calculate_credibility_deduction and line 51:
                      \* pre is the analyzer before the call, a the analyzer now,
                      \* entry the score with which line 51 is entered

serverVars == <<clients, scores_per_client, employee_ids, last_frame_time, now,
                conn, arrived, dispatched, atClose, backend, outbox, log>>
streamVars == <<nframes, result, darkRun, cleanRun, runBase>>
vars == <<serverVars, analyzer, streamVars, ded>>

NoResult == [ErrorResult EXCEPT !.status = "none"]
NoLocals ==
  [final_score |-> NoScore, employee_id |-> None, had_scores |-> FALSE,
   had_employee_id |-> FALSE, had_last_frame_time |-> FALSE]
NoCall ==
  [phase |-> "none", pre |-> AnalyzerInit, a |-> AnalyzerInit,
   gaze |-> [looking_away |-> FALSE, direction |-> "center", face_detected |-> FALSE],
   movement |-> [suspicious_count |-> 0, head_movement |-> FALSE],
   posture |-> [stood_up |-> FALSE],
   camera_blocked |-> FALSE, deduction |-> 0, entry |-> 0]

\* main.py 29-37 and surveillance.py 30-36.
ServerInit ==
  /\ clients = {}
  /\ scores_per_client = EmptyDict
  /\ employee_ids = EmptyDict
  /\ last_frame_time = EmptyDict
  /\ now = StartTime
  /\ conn = [s \in Sessions |-> "new"]
  /\ arrived = [s \in Sessions |-> 0]
  /\ dispatched = [s \in Sessions |-> <<>>]
  /\ atClose = [s \in Sessions |-> NoLocals]
  /\ backend = <<>>
  /\ outbox = [s \in Sessions |-> <<>>]
  /\ log = [s \in Sessions |-> <<>>]
StreamInit ==
  /\ nframes = 0
  /\ result = NoResult
  /\ darkRun = 0
  /\ cleanRun = 0
  /\ runBase = Pts(InitialScore)

Init ==
  /\ ServerInit
  /\ analyzer = AnalyzerInit
  /\ StreamInit
  /\ ded = NoCall

\* main.py 40: a connection is opened and its handler starts.
Connect(s) ==
  /\ conn[s] = "new"
  /\ \A r \in Sessions : r < s => conn[r] # "new"
  /\ conn' = [conn EXCEPT ![s] = "open"]
  /\ clients' = clients \cup {s}
  /\ UNCHANGED <<scores_per_client, employee_ids, last_frame_time, now,
                 arrived, dispatched, atClose, backend, outbox, log, analyzer,
                 streamVars, ded>>

\* time.time() advances by one tick, up to StartTime + limit.
Tick(limit) ==
  /\ now < StartTime + limit
  /\ now' = now + 1
  /\ UNCHANGED <<clients, scores_per_client, employee_ids, last_frame_time,
                 conn, arrived, dispatched, atClose, backend, outbox, log,
                 analyzer, streamVars, ded>>

\* Frames analysed so far, over all connections.
Analysed == SumSeq([s \in Sessions |-> Len(dispatched[s])])

\* main.py 48-52: self.employee_ids after text message m of connection s.
\* Only a JSON object of type init with the key employee_id writes it; a
\* json.loads or data.get that raises is caught at line 82.
BindIdentityFirst(ids, s, m) ==
  IF m.json = "init" /\ s \notin DOMAIN ids
  THEN DictSet(ids, s, m.employee_id)
  ELSE ids
BindIdentityLoose(ids, s, m) ==
  IF m.json \in {"init", "init_noid"}
  THEN DictSet(ids, s, m.employee_id)
  ELSE ids
BindIdentity(ids, s, m) ==
  IF m.json = "init"
  THEN DictSet(ids, s, m.employee_id)
  ELSE ids

\* main.py 63-64: cv2.imdecode returned an image (frame is not None).
DecodedMutant(m) == TRUE
Decoded(m) == m.decodes

\* main.py 60-66: self.last_frame_time when the iteration is over.  Line 60
\* has written it before line 63 decodes, and the continue of line 66 leaves
\* it written.
CommittedMutant(lft, g, decoded) ==
  IF g.accept /\ ~decoded THEN lft ELSE g.last_frame_time
Committed(lft, g, decoded) == g.last_frame_time

\* main.py 71: the score stored for a frame is the credibility_score of its
\* analysis; the key is always present, so the default is not used.
ScoreOfMutant(analysis_ret) == ErrorScore
ScoreOf(analysis_ret) == analysis_ret.credibility_score

\* main.py 44-84: one iteration of the async for loop, on message m of
\* connection s.  At most limit frames are analysed in all.  The iteration
\* awaits nothing: line 77 creates the safe_send task and goes on.
HandleMessage(s, m, limit) ==
  /\ conn[s] = "open"
  /\ UNCHANGED <<clients, now, conn, atClose, backend, streamVars, ded>>
  /\ IF m.kind = "text"
     THEN
       \* 47-52; a text that is not an init falls through to the else of
       \* line 79, and an exception of 48-49 is caught at line 82.
       /\ UNCHANGED <<scores_per_client, last_frame_time, arrived, dispatched,
                      outbox, analyzer>>
       /\ employee_ids' = BindIdentity(employee_ids, s, m)
     ELSE
       LET g == GateStep(last_frame_time, s, now)
       IN
       /\ arrived' = [arrived EXCEPT ![s] = now]
       /\ last_frame_time' = Committed(last_frame_time, g, Decoded(m))
       /\ UNCHANGED employee_ids
       /\ IF ~g.accept \/ ~Decoded(m)
          THEN \* 59 and 64-66: continue
               UNCHANGED <<scores_per_client, dispatched, outbox, analyzer>>
          ELSE
            LET analysis == analyze_behavior(analyzer, m.image)
                \* main.py 70: make_json_serializable changes the numeric
                \* types only.
                score == ScoreOf(analysis.ret)
            IN /\ Analysed < limit
               /\ analyzer' = analysis.state
               /\ scores_per_client' =
                    DictSet(scores_per_client, s,
                            Append(DictGet(scores_per_client, s, <<>>), score))
               /\ dispatched' = [dispatched EXCEPT ![s] = Append(@, analysis.ret)]
               /\ outbox' = [outbox EXCEPT ![s] = Append(@, "pending")]

OnMessage(s, m, limit) ==
  /\ HandleMessage(s, m, limit)
  /\ UNCHANGED log

\* main.py 101-117, reached through the finally of line 90 however the loop
\* ended.  cleanup_client awaits nothing: it runs in one step.
cleanup_clientMutant(s) ==
  LET had == s \in DOMAIN scores_per_client
      scores == DictGet(scores_per_client, s, <<>>)
      final_score == IF had /\ scores # <<>> THEN FinalScore(scores) ELSE NoScore
      employee_id == DictGet(employee_ids, s, None)
  IN
  /\ scores_per_client' = DictPop(scores_per_client, s)
  /\ employee_ids' = DictPop(employee_ids, s)
  /\ backend' = IF ReportsFinal(final_score, employee_id)
                THEN Append(backend, [ws |-> s, score |-> final_score,
                                      employee_id |-> employee_id,
                                      state |-> "pending",
                                      score_de_credibilite |-> 0])
                ELSE backend
  /\ clients' = IF ReportsFinal(final_score, employee_id) THEN clients \ {s} ELSE clients
  /\ last_frame_time' = IF ReportsFinal(final_score, employee_id)
                        THEN DictPop(last_frame_time, s) ELSE last_frame_time
  /\ atClose' = [atClose EXCEPT
                         ![s] = [final_score |-> final_score,
                                 employee_id |-> employee_id,
                                 had_scores |-> had,
                                 had_employee_id |-> s \in DOMAIN employee_ids,
                                 had_last_frame_time |->
                                     s \in DOMAIN last_frame_time]]

cleanup_client(s) ==
  LET had == s \in DOMAIN scores_per_client
      scores == DictGet(scores_per_client, s, <<>>)
      final_score == IF had /\ scores # <<>> THEN FinalScore(scores) ELSE NoScore
      employee_id == DictGet(employee_ids, s, None)
  IN
  /\ scores_per_client' = DictPop(scores_per_client, s)
  /\ employee_ids' = DictPop(employee_ids, s)
  /\ backend' = IF ReportsFinal(final_score, employee_id)
                THEN Append(backend, [ws |-> s, score |-> final_score,
                                      employee_id |-> employee_id,
                                      state |-> "pending",
                                      score_de_credibilite |-> 0])
                ELSE backend
  /\ clients' = clients \ {s}
  /\ last_frame_time' = DictPop(last_frame_time, s)
  /\ atClose' = [atClose EXCEPT
                         ![s] = [final_score |-> final_score,
                                 employee_id |-> employee_id,
                                 had_scores |-> had,
                                 had_employee_id |-> s \in DOMAIN employee_ids,
                                 had_last_frame_time |->
                                     s \in DOMAIN last_frame_time]]

\* main.py 86-91: the loop ends (stream exhausted, ConnectionClosed or any
\* other exception) and the finally clause runs cleanup_client.
LoopExit(s) ==
  /\ conn[s] = "open"
  /\ conn' = [conn EXCEPT ![s] = "closed"]
  /\ cleanup_client(s)
  /\ UNCHANGED <<now, arrived, dispatched, outbox, analyzer, streamVars, ded>>

Disconnect(s) ==
  /\ LoopExit(s)
  /\ UNCHANGED log

\* main.py 119-131: a send_score_to_backend task runs its one POST, which
\* ends with status 200, with another status or with an exception.
BackendPost(i, outcome) ==
  /\ i \in DOMAIN backend
  /\ backend[i].state = "pending"
  /\ backend' = [backend EXCEPT
                   ![i].state = outcome,
                   ![i].score_de_credibilite =
                       PyRound(backend[i].score.sum, backend[i].score.len)]
  /\ UNCHANGED <<clients, scores_per_client, employee_ids, last_frame_time, now,
                 conn, arrived, dispatched, atClose, outbox, log, analyzer,
                 streamVars, ded>>

PostOutcomes == {"http_200", "http_error", "exception"}

\* The safe_send tasks that line 77 creates write no field of the server:
\* here they stay pending; SpecDispatch and SpecLogged below run them.
Next ==
  \/ \E s \in Sessions : Connect(s)
  \/ Tick(MaxTicks)
  \/ \E s \in Sessions, m \in Messages : OnMessage(s, m, MaxFrames)
  \/ \E s \in Sessions : Disconnect(s)
  \/ \E i \in 1..Cardinality(Sessions), o \in PostOutcomes : BackendPost(i, o)

Spec == Init /\ [][Next]_vars


(***************************************************************************)
(* The scenario of a session that identifies itself and looks away: the    *)
(* server above, its messages restricted to the identity "E1" and to the   *)
(* frame FAway, with frames and time enough for three accepted frames of   *)
(* one session beside a frame of the other.                                *)
(***************************************************************************)
ScenarioMessages ==
  {Msg("text", "init", "E1", FALSE, FClean), Msg("bytes", "", None, TRUE, FAway)}
ScenarioTicks == 2 * TicksPerPeriod

NextScenario ==
  \/ \E s \in Sessions : Connect(s)
  \/ Tick(ScenarioTicks)
  \/ \E s \in Sessions, m \in ScenarioMessages : OnMessage(s, m, ScenarioFrames)
  \/ \E s \in Sessions : Disconnect(s)
  \/ \E i \in 1..Cardinality(Sessions), o \in PostOutcomes : BackendPost(i, o)

SpecScenario == Init /\ [][NextScenario]_vars

(***************************************************************************)
(* The server with its detached safe_send tasks and with a history of what *)
(* each handler did: every message handled and the way the loop ended are  *)
(* appended to log.  The messages are one of each kind the handler tells   *)
(* apart.                                                                  *)
(***************************************************************************)
\* The first and the last safe_send task of a queue that has not run yet, 0
\* when there is none.  asyncio runs the tasks in the order line 77 created
\* them, and websocket.send writes its frame before it first suspends.
LastPending(q) ==
  IF \E k \in DOMAIN q : q[k] = "pending"
  THEN CHOOSE k \in DOMAIN q :
         q[k] = "pending" /\ \A j \in DOMAIN q : j > k => q[j] # "pending"
  ELSE 0
FirstPending(q) ==
  IF \E k \in DOMAIN q : q[k] = "pending"
  THEN CHOOSE k \in DOMAIN q :
         q[k] = "pending" /\ \A j \in DOMAIN q : j < k => q[j] # "pending"
  ELSE 0

\* main.py 95-99: websocket.send returns, raises ConnectionClosed or raises
\* another exception.
SendOutcomes == {"sent", "ConnectionClosed", "error"}

\* main.py 93-99: the next safe_send task of connection s runs.  Both except
\* clauses end the task and nothing else; a send on a connection whose
\* handler has returned cannot succeed.
safe_sendRaising(s, outcome) ==
  /\ FirstPending(outbox[s]) # 0
  /\ outcome = "sent" => conn[s] = "open"
  /\ outbox' = [outbox EXCEPT ![s][FirstPending(outbox[s])] = outcome]
  /\ conn' = [conn EXCEPT ![s] = IF outcome = "sent" THEN @ ELSE "closed"]
  /\ UNCHANGED <<clients, scores_per_client, employee_ids, last_frame_time, now,
                 arrived, dispatched, atClose, backend, log, analyzer,
                 streamVars, ded>>
safe_send(s, outcome) ==
  /\ FirstPending(outbox[s]) # 0
  /\ outcome = "sent" => conn[s] = "open"
  /\ outbox' = [outbox EXCEPT ![s][FirstPending(outbox[s])] = outcome]
  /\ UNCHANGED <<clients, scores_per_client, employee_ids, last_frame_time, now,
                 conn, arrived, dispatched, atClose, backend, log, analyzer,
                 streamVars, ded>>

\* What the handler of connection s does with message m: an init is logged
\* by the employee_id it binds.
Outcome(s, m) ==
  IF m.kind = "text"
  THEN IF m.json = "init" THEN m.employee_id ELSE "ignored"
  ELSE IF ~GateStep(last_frame_time, s, now).accept
       THEN IF m.decodes THEN "rejected" ELSE "rejected_raw"
       ELSE IF ~m.decodes THEN "undecodable"
       ELSE IF m.image.cvt_ok THEN "analysed" ELSE "failed"

\* One iteration of the loop, logged; at most MaxLog messages a connection.
Receive(s, m, limit) ==
  /\ Len(log[s]) < MaxLog
  /\ HandleMessage(s, m, limit)
  /\ log' = [log EXCEPT ![s] = Append(@, Outcome(s, m))]

\* main.py 86-89: the ways the loop ends.
ExitCauses == {"exhausted", "ConnectionClosed", "exception"}

\* main.py 86-91: the loop ends by cause, logged.
Exit(s, cause) ==
  /\ LoopExit(s)
  /\ log' = [log EXCEPT ![s] = Append(@, cause)]

LoggedMessages ==
  {Msg("text", j, None, FALSE, FClean) :
      j \in {"malformed", "nondict", "other", "init_noid"}}
  \cup {Msg("text", "init", e, FALSE, FClean) : e \in EmployeeIds \cup {None}}
  \cup {Msg("bytes", "", None, TRUE, f) : f \in {FAway, FCvtFail}}
  \cup {Msg("bytes", "", None, FALSE, FClean)}

\* The connection whose history is kept.
LoggedSessions == {1}

NextLogged ==
  \/ \E s \in LoggedSessions : Connect(s)
  \/ Tick(MaxTicks)
  \/ \E s \in LoggedSessions, m \in LoggedMessages : Receive(s, m, MaxFrames)
  \/ \E s \in LoggedSessions, o \in SendOutcomes : safe_send(s, o)
  \/ \E s \in LoggedSessions, c \in ExitCauses : Exit(s, c)
  \/ \E i \in 1..Cardinality(LoggedSessions), o \in PostOutcomes : BackendPost(i, o)

SpecLogged == Init /\ [][NextLogged]_vars

(***************************************************************************)
(* The server and its detached safe_send tasks, on two connections that    *)
(* send frames: the handlers and the send tasks interleave freely, a task  *)
(* running at any time after line 77 created it or not at all.             *)
(***************************************************************************)
DispatchMessages == {Msg("bytes", "", None, TRUE, FAway)}

NextDispatch ==
  \/ \E s \in Sessions : Connect(s)
  \/ Tick(MaxTicks)
  \/ \E s \in Sessions, m \in DispatchMessages : OnMessage(s, m, DispatchFrames)
  \/ \E s \in Sessions, o \in SendOutcomes : safe_send(s, o)
  \/ \E s \in Sessions : Disconnect(s)

SpecDispatch == Init /\ [][NextDispatch]_vars

(***************************************************************************)
(* One BehaviorAnalyzer fed a stream of frames: the calls of               *)
(* analyze_behavior that main.py line 69 makes, whatever connection each   *)
(* frame came from.                                                        *)
(***************************************************************************)
\* All the deduction conditions of an analysed frame are false; nff is
\* no_face_frames after the frame.
ObservationClean(res, nff) ==
  /\ ~res.looking_away
  /\ res.suspicious_movements = 0
  /\ ~res.person_stood_up
  /\ ~res.camera_blocked
  /\ ~(~res.face_detected /\ nff > NoFaceThreshold)

Feed(f) ==
  /\ nframes < MaxSteps
  /\ LET r == analyze_behavior(analyzer, f)
         analysed == r.ret.status = "analyzed"
         clean == analysed /\ ObservationClean(r.ret, r.state.no_face_frames)
     IN /\ analyzer' = r.state
        /\ result' = r.ret
        /\ nframes' = nframes + 1
        /\ darkRun' = IF ~analysed THEN darkRun
                      ELSE IF IsDark(f) THEN darkRun + 1 ELSE 0
        /\ cleanRun' = IF ~analysed THEN cleanRun
                       ELSE IF clean THEN cleanRun + 1 ELSE 0
        /\ runBase' = IF ~analysed \/ clean THEN runBase
                      ELSE r.state.credibility_score
  /\ UNCHANGED <<serverVars, ded>>

NextAnalyzer == \E f \in StreamFrames : Feed(f)

SpecAnalyzer == Init /\ [][NextAnalyzer]_vars

(***************************************************************************)
(* One call of calculate_credibility_deduction followed by line 51, on     *)
(* arguments and analyzer fields drawn from bounded sets.                  *)
(***************************************************************************)
DeductionCalls ==
  {[phase |-> "call",
    pre |-> [credibility_score |-> sc, camera_blocked_frames |-> 0,
             no_face_frames |-> nf],
    a |-> [credibility_score |-> sc, camera_blocked_frames |-> 0,
           no_face_frames |-> nf],
    gaze |-> [looking_away |-> la, direction |-> "center", face_detected |-> fd],
    movement |-> [suspicious_count |-> n, head_movement |-> FALSE],
    posture |-> [stood_up |-> su],
    camera_blocked |-> cb,
    deduction |-> 0, entry |-> 0] :
      sc \in Pts(MinScore)..Pts(MaxScore),
      nf \in {0, NoFaceThreshold, NoFaceThreshold + 1},
      la \in BOOLEAN, fd \in BOOLEAN, n \in 0..MaxSuspicious,
      su \in BOOLEAN, cb \in BOOLEAN}

InitDeduction ==
  /\ ServerInit
  /\ analyzer = AnalyzerInit
  /\ StreamInit
  /\ ded \in DeductionCalls

\* surveillance.py 47-49.
Calculate ==
  /\ ded.phase = "call"
  /\ LET c == calculate_credibility_deduction(ded.a, ded.gaze, ded.movement,
                                              ded.posture, ded.camera_blocked)
     IN ded' = [ded EXCEPT !.phase = "calculated", !.a = c.state,
                           !.deduction = c.ret,
                           !.entry = c.state.credibility_score]
  /\ UNCHANGED <<serverVars, analyzer, streamVars>>

\* surveillance.py 51.
Apply ==
  /\ ded.phase = "calculated"
  /\ ded' = [ded EXCEPT !.phase = "applied",
                        !.a.credibility_score = ApplyDeduction(@, ded.deduction)]
  /\ UNCHANGED <<serverVars, analyzer, streamVars>>

NextDeduction == Calculate \/ Apply

SpecDeduction == InitDeduction /\ [][NextDeduction]_vars


(***************************************************************************)
(* The claims.                                                             *)
(***************************************************************************)
Last(q) == q[Len(q)]

\* C1: sessions do not interfere: the credibility state that the frames of
\* a connection are scored with is changed by that connection's own frames
\* only, so a connection none of whose frames was analysed yet still has
\* score 100 and both counters 0, whatever the other connections did.
C1_SessionsIsolated ==
  \A s \in Sessions :
    (conn[s] = "open" /\ dispatched[s] = <<>>) => analyzer = AnalyzerInit

\* C2: score bounds: after any sequence of frames, error-status frames
\* included, 20 <= score <= 100, and the credibility_score of every result
\* is an integer of 20..100.
C2_ScoreBounds ==
  /\ analyzer.credibility_score >= Pts(MinScore)
  /\ analyzer.credibility_score <= Pts(MaxScore)
  /\ result.credibility_score \in MinScore..MaxScore
C2_Witness ==
  /\ result.status = "analyzed"
  /\ result.person_stood_up
  /\ result.credibility_score = MinScore
  /\ analyzer.credibility_score = Pts(MinScore)
  /\ nframes = 6


\* The backend tasks created for connection s.
ReportsOf(s) == {i \in DOMAIN backend : backend[i].ws = s}
\* n is sum/len rounded to a nearest integer.
IsRounded(n, sum, len) == 2 * n * len - len <= 2 * sum /\ 2 * sum <= 2 * n * len + len
\* A result that reports looking away and nothing else.
OnlyLookingAway(res) ==
  /\ res.status = "analyzed" /\ res.looking_away /\ res.face_detected
  /\ res.suspicious_movements = 0 /\ ~res.head_movement
  /\ ~res.person_stood_up /\ ~res.camera_blocked

\* The general part of C3: a closed connection that had a non-empty history
\* and a bound id has exactly one backend task, which carries the bound id
\* and, once posted, the rounded mean of the history; a closed connection
\* with an empty history has none.
ReportOnClose(s) ==
  LET c == atClose[s]
  IN conn[s] = "closed" =>
       /\ (c.final_score # NoScore /\ c.employee_id # None) =>
             /\ Cardinality(ReportsOf(s)) = 1
             /\ \A i \in ReportsOf(s) :
                  /\ backend[i].employee_id = c.employee_id
                  /\ backend[i].score = c.final_score
                  /\ backend[i].state # "pending" =>
                       IsRounded(backend[i].score_de_credibilite,
                                 c.final_score.sum, c.final_score.len)
       /\ c.final_score = NoScore => ReportsOf(s) = {}

\* The example of C3: identity "E1", then three accepted frames that show
\* looking away and nothing else, give the history 97, 94, 91 and the one
\* report {E1, 94}.
ReportExample(s) ==
  (/\ conn[s] = "closed"
   /\ atClose[s].employee_id = "E1"
   /\ Len(dispatched[s]) = 3
   /\ \A k \in 1..3 : OnlyLookingAway(dispatched[s][k]))
  => /\ dispatched[s][1].credibility_score = 97
     /\ dispatched[s][2].credibility_score = 94
     /\ dispatched[s][3].credibility_score = 91
     /\ atClose[s].final_score = [sum |-> 282, len |-> 3]
     /\ \A i \in ReportsOf(s) :
          backend[i].state # "pending" => backend[i].score_de_credibilite = 94

\* C3: report on close: a session that ends with a non-empty scoreHistory
\* and a bound employeeId makes exactly one backend report call, with the
\* bound id and round(mean(scoreHistory)); identity "E1" and three frames of
\* looking away alone give the history 97, 94, 91 and one report {E1, 94}; a
\* session with a bound id and an empty history makes no report call.
C3_ReportOnClose == \A s \in Sessions : ReportOnClose(s) /\ ReportExample(s)

\* The general part of C3 alone.
C3_GeneralPart == \A s \in Sessions : ReportOnClose(s)


\* Connection s is closed and every entry of it is gone.
CleanedUp(s) ==
  /\ conn[s] = "closed"
  /\ s \notin clients
  /\ s \notin DOMAIN scores_per_client
  /\ s \notin DOMAIN employee_ids
  /\ s \notin DOMAIN last_frame_time

\* C4 as stated: a session that never receives an identity message and has
\* gate-accepted frames has a non-empty scoreHistory at disconnect, triggers
\* no backend report call, and is cleaned up.
C4_Original ==
  \A s \in Sessions :
    (/\ conn[s] = "closed"
     /\ ~atClose[s].had_employee_id
     /\ atClose[s].had_last_frame_time)
    => /\ atClose[s].final_score # NoScore
       /\ ReportsOf(s) = {}
       /\ CleanedUp(s)

\* C4, amended: a session that never receives an identity message and has
\* at least one accepted frame that decodes has, at disconnect, a scoreHistory
\* with one score per such frame, triggers no backend report call, and is
\* cleaned up.
C4_Unreported ==
  \A s \in Sessions :
    (/\ conn[s] = "closed"
     /\ ~atClose[s].had_employee_id
     /\ dispatched[s] # <<>>)
    => /\ atClose[s].had_scores
       /\ atClose[s].final_score # NoScore
       /\ atClose[s].final_score.len = Len(dispatched[s])
       /\ ReportsOf(s) = {}
       /\ CleanedUp(s)
C4_Witness ==
  \E s \in Sessions :
    /\ conn[s] = "closed"
    /\ ~atClose[s].had_employee_id
    /\ Len(dispatched[s]) = 2
    /\ atClose[s].final_score.len = 2
    /\ backend = <<>>


\* The gate condition for a binary message of connection s arriving now:
\* no frame of s was accepted before, or the last one was accepted at least
\* 1/max_fps ago.
GateOpen(s) ==
  s \notin DOMAIN last_frame_time \/ now - last_frame_time[s] >= FramePeriod

\* What C5 says of one step that handles binary message m of connection s.
RateLimitedStep(s, m) ==
  /\ GateOpen(s) =>
       \* accepted: the timestamp becomes now, and a frame that decodes is
       \* analysed and its result dispatched
       /\ s \in DOMAIN last_frame_time' /\ last_frame_time'[s] = now
       /\ m.decodes => Len(dispatched'[s]) = Len(dispatched[s]) + 1
       /\ s \in DOMAIN last_frame_time =>
            last_frame_time'[s] - last_frame_time[s] >= FramePeriod
  /\ ~GateOpen(s) =>
       \* rejected: the timestamp stays and nothing is dispatched
       /\ last_frame_time' = last_frame_time
       /\ dispatched' = dispatched
  \* a frame that arrives at least 1/max_fps after the previous frame of the
  \* connection is accepted
  /\ now - arrived[s] >= FramePeriod => GateOpen(s)

\* C5: rate limiting: a binary frame arriving at time now is accepted iff
\* now - lastFrameTimestamp >= 1/maxFps (the first frame of a session is
\* accepted); acceptance sets lastFrameTimestamp to now, so two consecutive
\* accepted frames of a session are at least 1/maxFps apart; frames that
\* arrive at intervals >= 1/maxFps are all accepted.
C5_RateLimit ==
  [][\A s \in Sessions, m \in FrameMessages :
       OnMessage(s, m, MaxFrames) => RateLimitedStep(s, m)]_vars
C5_Witness ==
  \E s, r \in Sessions :
    /\ Len(dispatched[s]) = 2
    /\ s \in DOMAIN last_frame_time
    /\ last_frame_time[s] = StartTime + FramePeriod
    /\ r \in DOMAIN last_frame_time
    /\ arrived[r] > last_frame_time[r]

\* C6: a frame rejected by the gate changes nothing: lastFrameTimestamp,
\* scoreHistory, the employeeId binding and the credibility state stay as
\* they are, no result is dispatched, and the connection stays open.
C6_RejectedFrame ==
  [][\A s \in Sessions, m \in FrameMessages :
       (OnMessage(s, m, MaxFrames) /\ ~GateOpen(s)) =>
          UNCHANGED <<last_frame_time, scores_per_client, employee_ids,
                      analyzer, dispatched, clients, conn, backend>>]_vars
C6_Witness ==
  \E s \in Sessions :
    /\ conn[s] = "open"
    /\ s \in DOMAIN last_frame_time
    /\ arrived[s] > last_frame_time[s]
    /\ arrived[s] - last_frame_time[s] < FramePeriod
    /\ Len(dispatched[s]) = 1


B2N(b) == IF b THEN 1 ELSE 0

\* The deduction C7 states for the call in ded, in points.
StatedDeduction ==
  3 * B2N(ded.gaze.looking_away)
  + 2 * ded.movement.suspicious_count
  + 15 * B2N(ded.posture.stood_up)
  + 10 * B2N(ded.camera_blocked)
  + 5 * B2N(~ded.gaze.face_detected /\ ded.pre.no_face_frames > 10)

\* C7: deduction additivity: totalDeduction = 3*[lookingAway]
\* + 2*suspiciousMovementCount + 15*[personStoodUp] + 10*[cameraBlocked]
\* + 5*[not faceDetected and consecutiveNoFaceFrames > 10], and line 51
\* sets the score to max(20, score - totalDeduction); with a deduction above
\* 0 the score line 51 starts from is the score before the frame.  Looking
\* away with a movement count of 2 and nothing else deducts exactly 7.
C7_DeductionAdditivity ==
  /\ ded.phase \in {"calculated", "applied"} =>
       /\ ded.deduction = StatedDeduction
       /\ ded.deduction > 0 => ded.entry = ded.pre.credibility_score
  /\ ded.phase = "applied" =>
       /\ ded.a.credibility_score = Max(2 * 20, ded.entry - 2 * ded.deduction)
       /\ ded.deduction > 0 =>
            ded.a.credibility_score =
              Max(2 * 20, ded.pre.credibility_score - 2 * ded.deduction)
C7_Witness ==
  /\ ded.phase = "applied"
  /\ ded.gaze.looking_away /\ ded.gaze.face_detected
  /\ ded.movement.suspicious_count = 2
  /\ ~ded.posture.stood_up /\ ~ded.camera_blocked
  /\ ded.deduction = 7
  /\ ded.pre.credibility_score = 2 * 90
  /\ ded.a.credibility_score = 2 * 83


\* A step of the stream that analysed a frame (status "analyzed").
AnalysedStep == nframes' = nframes + 1 /\ result'.status = "analyzed"
\* The observation of the frame just analysed has every deduction condition false.
CleanStep == AnalysedStep /\ ObservationClean(result', analyzer'.no_face_frames)

\* C8: regeneration: a frame with totalDeduction = 0 and score < 100 sets
\* the score to min(100, score + 0.5), and a frame with totalDeduction > 0
\* never regenerates; hence k clean frames in a row raise the score by k/2
\* (ten of them from 80 give 85), never beyond 100.
C8_Regeneration ==
  /\ [](/\ analyzer.credibility_score = Min(2 * 100, runBase + cleanRun)
        /\ analyzer.credibility_score <= 2 * 100)
  /\ [][/\ (CleanStep /\ analyzer.credibility_score < 2 * 100) =>
              analyzer'.credibility_score
                = Min(2 * 100, analyzer.credibility_score + 1)
        /\ (CleanStep /\ analyzer.credibility_score = 2 * 100) =>
              analyzer'.credibility_score = 2 * 100
        /\ (AnalysedStep /\ ~CleanStep) =>
              analyzer'.credibility_score < analyzer.credibility_score
              \/ analyzer'.credibility_score = 2 * 20]_vars
C8_Witness ==
  /\ runBase = 2 * 80
  /\ cleanRun = 10
  /\ analyzer.credibility_score = 2 * 85
  /\ result.credibility_score = 85

\* C9: camera-blocked hysteresis: a dark and flat frame adds 1 to
\* cameraBlockedCounter, any other analysed frame subtracts 0.5, not below 0,
\* and cameraBlocked = (cameraBlockedCounter > 5); from counter 0, dark
\* frames in a row give cameraBlocked for the first time on the sixth, and
\* it is never true before six frames; one bright frame then takes off 0.5
\* only, so cameraBlocked stays true.
C9_CameraHysteresis ==
  /\ [](/\ result.status = "analyzed" =>
             result.camera_blocked = (analyzer.camera_blocked_frames > 2 * 5)
        /\ darkRun = nframes => analyzer.camera_blocked_frames = 2 * nframes
        /\ (darkRun = nframes /\ nframes > 0) =>
             result.camera_blocked = (nframes >= 6)
        /\ analyzer.camera_blocked_frames > 2 * 5 => nframes >= 6
        /\ analyzer.camera_blocked_frames >= 0)
  /\ [][/\ (AnalysedStep /\ darkRun' = darkRun + 1) =>
              analyzer'.camera_blocked_frames = analyzer.camera_blocked_frames + 2
        /\ (AnalysedStep /\ darkRun' = 0) =>
              /\ analyzer'.camera_blocked_frames
                   = Max(0, analyzer.camera_blocked_frames - 1)
              /\ analyzer.camera_blocked_frames >= 2 * 6 =>
                   result'.camera_blocked]_vars
C9_Witness ==
  /\ nframes = 7
  /\ darkRun = 0
  /\ result.status = "analyzed"
  /\ analyzer.camera_blocked_frames = 11
  /\ result.camera_blocked


\* The neutral Observation of an extraction failure, with status "error".
NeutralErrorResult(res) ==
  /\ res.status = "error"
  /\ ~res.looking_away /\ res.suspicious_movements = 0
  /\ ~res.person_stood_up /\ ~res.camera_blocked /\ ~res.face_detected
  /\ res.gaze_direction = "center" /\ ~res.head_movement

\* A MediaPipe call raises on the frame, or cv2.cvtColor does.
ExtractionFails(frame) ==
  ~frame.cvt_ok \/ frame.face = "raise" \/ frame.mv = "raise" \/ frame.ps = "raise"

\* C10: error-status frames do not move the score: when the feature
\* extraction fails on an accepted frame (the colour conversion, the face
\* mesh or the pose model raises), the score after the frame is the score
\* before it, neither deduction nor regeneration applied, and a result with
\* status "error" and the neutral Observation fields is dispatched.
C10_Original ==
  [][\A s \in Sessions, m \in FrameMessages :
       (/\ OnMessage(s, m, MaxFrames)
        /\ GateOpen(s) /\ m.decodes /\ ExtractionFails(m.image))
       => /\ analyzer'.credibility_score = analyzer.credibility_score
          /\ Len(dispatched'[s]) = Len(dispatched[s]) + 1
          /\ NeutralErrorResult(Last(dispatched'[s]))]_vars

\* The deduction of a result, in points; nff is no_face_frames after it.
DeductionOf(res, nff) ==
  3 * B2N(res.looking_away)
  + 2 * res.suspicious_movements
  + 15 * B2N(res.person_stood_up)
  + 10 * B2N(res.camera_blocked)
  + 5 * B2N(~res.face_detected /\ nff > 10)

\* What the code does on a failure.  A cv2.cvtColor that raises at line 40
\* is the one failure that gives status "error": the state is kept and the
\* neutral result dispatched.  A face mesh or pose model that raises is
\* caught in its own analyzer: the result has status "analyzed", carries
\* that analyzer's neutral fields beside what the others computed, and the
\* frame is scored like any other, by deduction or regeneration.
C10_ErrorFrame ==
  [][\A s \in Sessions :
       /\ \A m \in FrameMessages :
            (/\ OnMessage(s, m, MaxFrames)
             /\ GateOpen(s) /\ m.decodes)
            => LET res == Last(dispatched'[s])
                   d == DeductionOf(res, analyzer'.no_face_frames)
               IN
               /\ Len(dispatched'[s]) = Len(dispatched[s]) + 1
               /\ ~m.image.cvt_ok => res.status = "error"
               /\ m.image.cvt_ok =>
                    /\ res.status = "analyzed"
                    /\ m.image.face = "raise" =>
                         /\ ~res.looking_away /\ ~res.face_detected
                         /\ res.gaze_direction = "center"
                         /\ analyzer'.no_face_frames = analyzer.no_face_frames
                    /\ m.image.mv = "raise" =>
                         res.suspicious_movements = 0 /\ ~res.head_movement
                    /\ m.image.ps = "raise" => ~res.person_stood_up
                    /\ analyzer'.credibility_score =
                         IF d = 0
                         THEN Min(2 * 100, analyzer.credibility_score + 1)
                         ELSE Max(2 * 20, analyzer.credibility_score - 2 * d)
                    /\ res.credibility_score = analyzer'.credibility_score \div 2
       /\ (/\ Len(dispatched'[s]) = Len(dispatched[s]) + 1
           /\ Last(dispatched'[s]).status = "error")
          => /\ NeutralErrorResult(Last(dispatched'[s]))
             /\ analyzer' = analyzer]_vars



\* C11: cleanup on every exit path: however the loop of a connection ends
\* (stream exhausted, ConnectionClosed, any other exception), the step that
\* ends it removes the connection from the client set and removes its
\* scoreHistory, employeeId and lastFrameTimestamp entries, whether or not a
\* report is made; afterwards no entry of the connection exists and no later
\* step, a still pending safe_send included, re-creates one or adds a score.
C11_CleanupOnExit ==
  /\ [](\A s \in Sessions : conn[s] = "closed" => CleanedUp(s))
  /\ [][\A s \in Sessions :
          /\ \A c \in ExitCauses : Exit(s, c) => CleanedUp(s)'
          /\ (conn[s] = "open" /\ conn'[s] # "open") =>
                /\ CleanedUp(s)'
                /\ (ReportsOf(s)' = {}) = ~ReportsFinal(atClose'[s].final_score,
                                                       atClose'[s].employee_id)
          /\ conn[s] = "closed" =>
                /\ CleanedUp(s)'
                /\ atClose'[s] = atClose[s]
                /\ dispatched'[s] = dispatched[s]]_vars
C11_Witness ==
  \E s \in Sessions :
    /\ CleanedUp(s)
    /\ Last(log[s]) = "exception"
    /\ atClose[s].had_scores /\ atClose[s].had_last_frame_time
    /\ ~atClose[s].had_employee_id
    /\ ReportsOf(s) = {}
    /\ outbox[s] = <<"sent", "pending">>


\* A step in which the handler of connection s analyses a frame.
AnalysesFrame(s) == Len(dispatched'[s]) = Len(dispatched[s]) + 1
\* q continues p: the old entries are kept, in place.
Extends(q, p) == Len(q) >= Len(p) /\ \A k \in DOMAIN p : q[k] = p[k]

SendRuns(s) ==
  \E k \in DOMAIN outbox[s] : outbox[s][k] = "pending" /\ outbox'[s][k] # "pending"

\* C13: a dispatch failure is swallowed: a safe_send that fails (the
\* connection is closed, or any other error) or succeeds changes nothing but
\* its own task: the score, the scoreHistory with the frame's score already
\* in it, the employeeId and the gate stay, and no connection is closed by
\* it; whatever sends are pending or have failed, every open connection can
\* handle its next frame.
C13_SendFailureSwallowed ==
  /\ [][\A s \in Sessions :
          SendRuns(s) =>
            /\ UNCHANGED <<conn, clients, scores_per_client, employee_ids,
                           last_frame_time, analyzer, dispatched, backend>>
            /\ s \in DOMAIN scores_per_client =>
                 Len(scores_per_client[s]) = Len(outbox[s])]_vars
  /\ [](\A s \in Sessions, m \in DispatchMessages :
          (conn[s] = "open" /\ Analysed < DispatchFrames)
          => ENABLED OnMessage(s, m, DispatchFrames))
C13_Witness ==
  \E s, r \in Sessions :
    /\ s # r
    /\ conn[s] = "open" /\ conn[r] = "open"
    /\ outbox[s] = <<"error", "pending">>
    /\ outbox[r] = <<"ConnectionClosed">>
    /\ Len(scores_per_client[s]) = 2
    /\ Len(scores_per_client[r]) = 1


\* The handler of connection s can take message m next.
CanReceive(s, m) == ENABLED Receive(s, m, MaxFrames)
\* Connection s is open and within the bounds of the logged server.
Receiving(s) == conn[s] = "open" /\ Len(log[s]) < MaxLog /\ Analysed < MaxFrames

\* C14: decode failure: a gate-accepted binary message that cv2.imdecode
\* cannot decode changes no credibility state, appends no score, creates no
\* outbound message, and leaves the connection open and able to handle
\* later messages.
C14_DecodeFailure ==
  /\ [][\A s \in Sessions, m \in LoggedMessages :
          (/\ Receive(s, m, MaxFrames)
           /\ m.kind = "bytes" /\ GateOpen(s) /\ ~m.decodes)
          => /\ Last(log'[s]) = "undecodable"
             /\ UNCHANGED <<analyzer, scores_per_client, dispatched, outbox,
                            conn, clients, employee_ids, backend>>]_vars
  /\ [](\A s \in LoggedSessions, m \in LoggedMessages :
          (/\ Receiving(s)
           /\ log[s] # <<>> /\ Last(log[s]) = "undecodable")
          => CanReceive(s, m))
C14_Witness ==
  \E s \in Sessions :
    /\ log[s] = <<"undecodable", "analysed">>
    /\ Len(dispatched[s]) = 1
    /\ scores_per_client[s] = <<97>>
    /\ last_frame_time[s] = StartTime + FramePeriod

\* The employee_id of the last init in a log, None when it has none.
RECURSIVE LastInit(_)
LastInit(q) ==
  IF q = <<>> THEN None
  ELSE IF Last(q) \in EmployeeIds \cup {None} THEN Last(q)
  ELSE LastInit(SubSeq(q, 1, Len(q) - 1))
\* The employee_id connection s is bound to, None when it is bound to none.
BoundId(s) == IF conn[s] = "closed" THEN atClose[s].employee_id
              ELSE DictGet(employee_ids, s, None)

\* C15: identity binding: an init message may come any number of times,
\* before, between or after frames; each one overwrites employeeId, so the
\* value cleanup uses is the last one received; an init changes nothing else
\* and sends nothing; frames are scored and their score appended whether or
\* not an identity is bound.
C15_IdentityBinding ==
  /\ [](\A s \in Sessions :
          /\ BoundId(s) = LastInit(log[s])
          /\ \A i \in ReportsOf(s) : backend[i].employee_id = LastInit(log[s]))
  /\ [][\A s \in Sessions, m \in LoggedMessages :
          /\ (Receive(s, m, MaxFrames) /\ m.kind = "text" /\ m.json = "init")
             => /\ s \in DOMAIN employee_ids'
                /\ employee_ids'[s] = m.employee_id
                /\ \A r \in Sessions \ {s} : BoundId(r)' = BoundId(r)
                /\ UNCHANGED <<conn, clients, scores_per_client, last_frame_time,
                               analyzer, dispatched, outbox, backend>>
          /\ (/\ Receive(s, m, MaxFrames)
              /\ m.kind = "bytes" /\ GateOpen(s) /\ m.decodes)
             => /\ AnalysesFrame(s)
                /\ Len(scores_per_client'[s])
                     = Len(DictGet(scores_per_client, s, <<>>)) + 1
                /\ employee_ids' = employee_ids]_vars
C15_Witness ==
  \E s \in Sessions :
    /\ log[s] = <<"E1", "analysed", "E2", "exhausted">>
    /\ conn[s] = "closed"
    /\ atClose[s].employee_id = "E2"
    /\ \E i \in ReportsOf(s) :
         backend[i].employee_id = "E2" /\ backend[i].score = [sum |-> 97, len |-> 1]

\* C16: identity parse failure and unknown text: a text message that is not
\* JSON, or is JSON but not an object of type init with an employee_id,
\* is ignored: the connection stays open, employeeId, scoreHistory,
\* lastFrameTimestamp and the credibility state stay as they are, nothing is
\* sent, and later messages are handled.
C16_IgnoredText ==
  /\ [][\A s \in Sessions, m \in LoggedMessages :
          (Receive(s, m, MaxFrames) /\ m.kind = "text" /\ m.json # "init")
          => /\ Last(log'[s]) = "ignored"
             /\ UNCHANGED <<conn, clients, employee_ids, scores_per_client,
                            last_frame_time, analyzer, dispatched, outbox,
                            backend>>]_vars
  /\ [](\A s \in LoggedSessions, m \in LoggedMessages :
          (/\ Receiving(s)
           /\ log[s] # <<>> /\ Last(log[s]) = "ignored")
          => CanReceive(s, m))
C16_Witness ==
  \E s \in Sessions :
    /\ log[s] = <<"E1", "ignored", "analysed">>
    /\ conn[s] = "open"
    /\ employee_ids[s] = "E1"
    /\ scores_per_client[s] = <<97>>


\* C17: the reported score is the truncation of the internal score: the
\* credibility_score of every result, whatever its status, is the integer
\* part of the internal score after the frame, and the internal score keeps
\* its half points.
C17_Truncation ==
  result.status # "none" =>
    /\ 2 * result.credibility_score <= analyzer.credibility_score
    /\ analyzer.credibility_score < 2 * (result.credibility_score + 1)

\* The same of the results with status "analyzed" alone.
C17_AnalysedPart ==
  result.status = "analyzed" =>
    /\ 2 * result.credibility_score <= analyzer.credibility_score
    /\ analyzer.credibility_score < 2 * (result.credibility_score + 1)


\* The deduction of the frame just analysed, in points, from its result and
\* from no_face_frames after it.
ObservedDeduction ==
  3 * B2N(result'.looking_away)
  + 2 * result'.suspicious_movements
  + 15 * B2N(result'.person_stood_up)
  + 10 * B2N(result'.camera_blocked)
  + 5 * B2N(~result'.face_detected /\ analyzer'.no_face_frames > 10)

\* C18: no-face penalty: consecutiveNoFaceFrames goes up by one on every
\* analysed frame in which the face mesh finds no face and back to 0 on a
\* frame in which it finds one; the +5 is part of a frame's deduction iff
\* the frame has no face detected and the counter is above 10; so in a run
\* of no-face frames from counter 0 the first ten carry no deduction, the
\* eleventh is the first to carry it, and a face frame ends it at once.
C18_NoFacePenalty ==
  /\ [](analyzer.no_face_frames = nframes =>
          analyzer.credibility_score =
            IF nframes <= 10 THEN 2 * 100
            ELSE Max(2 * 20, 2 * 100 - 2 * 5 * (nframes - 10)))
  /\ [][/\ \A f \in StreamFrames :
             (Feed(f) /\ f.cvt_ok) =>
               /\ f.face = "none" =>
                    /\ analyzer'.no_face_frames = analyzer.no_face_frames + 1
                    /\ ~result'.face_detected
               /\ f.face = "found" =>
                    /\ analyzer'.no_face_frames = 0
                    /\ result'.face_detected
        /\ AnalysedStep =>
             analyzer'.credibility_score =
               IF ObservedDeduction = 0
               THEN Min(2 * 100, analyzer.credibility_score + 1)
               ELSE Max(2 * 20, analyzer.credibility_score - 2 * ObservedDeduction)
        /\ (AnalysedStep /\ result'.face_detected /\ CleanStep) =>
             analyzer'.credibility_score >= analyzer.credibility_score]_vars
C18_Witness ==
  /\ nframes = 11
  /\ analyzer.no_face_frames = 11
  /\ ~result.face_detected
  /\ result.credibility_score = 95
  /\ analyzer.credibility_score = 2 * 95


\* C19: the gate timestamp is committed before decoding: a gate-accepted
\* frame that fails to decode, or whose analysis raises, still sets
\* lastFrameTimestamp to its arrival time; so a valid frame that arrives
\* less than 1/maxFps after an undecodable accepted frame is rejected.
C19_TimestampBeforeDecode ==
  [][\A s \in Sessions, m \in LoggedMessages :
       /\ (/\ Receive(s, m, MaxFrames)
           /\ m.kind = "bytes" /\ GateOpen(s)
           /\ (~m.decodes \/ ~m.image.cvt_ok))
          => /\ s \in DOMAIN last_frame_time'
             /\ last_frame_time'[s] = now
             /\ Last(log'[s]) \in {"undecodable", "failed"}
       /\ (/\ Receive(s, m, MaxFrames)
           /\ m.kind = "bytes" /\ m.decodes
           /\ log[s] # <<>> /\ Last(log[s]) = "undecodable"
           /\ now - arrived[s] < FramePeriod)
          => /\ Last(log'[s]) = "rejected"
             /\ UNCHANGED <<last_frame_time, scores_per_client, dispatched,
                            outbox, analyzer>>]_vars
C19_Witness ==
  \E s \in Sessions :
    /\ log[s] = <<"undecodable", "rejected">>
    /\ dispatched[s] = <<>>
    /\ last_frame_time[s] = StartTime
    /\ arrived[s] = StartTime + FramePeriod - 1

\* The sum of the credibility_score of a sequence of results.
RECURSIVE SumScores(_)
SumScores(q) ==
  IF q = <<>> THEN 0 ELSE Head(q).credibility_score + SumScores(Tail(q))

\* C20: the value appended to scoreHistory for a frame is the
\* credibility_score of the result dispatched for it, one append and one
\* dispatch per decoded accepted frame; for an error-status frame it is 100
\* whatever the internal score, so every such frame adds 100 to the mean
\* that becomes the session's final score.
C20_HistoryIsDispatched ==
  /\ [](\A s \in Sessions :
          /\ s \in DOMAIN scores_per_client =>
               /\ Len(scores_per_client[s]) = Len(dispatched[s])
               /\ \A k \in DOMAIN dispatched[s] :
                    /\ scores_per_client[s][k] = dispatched[s][k].credibility_score
                    /\ dispatched[s][k].status = "error" =>
                         scores_per_client[s][k] = 100
          /\ (conn[s] = "closed" /\ dispatched[s] # <<>>) =>
               /\ atClose[s].final_score.sum = SumScores(dispatched[s])
               /\ atClose[s].final_score.len = Len(dispatched[s])
               /\ \A i \in ReportsOf(s) : backend[i].score = atClose[s].final_score)
  /\ [][\A s \in Sessions, m \in LoggedMessages :
          (/\ Receive(s, m, MaxFrames)
           /\ m.kind = "bytes" /\ GateOpen(s) /\ m.decodes)
          => /\ AnalysesFrame(s)
             /\ scores_per_client'[s]
                  = Append(DictGet(scores_per_client, s, <<>>),
                           Last(dispatched'[s]).credibility_score)
             /\ ~m.image.cvt_ok =>
                  /\ Last(scores_per_client'[s]) = 100
                  /\ analyzer' = analyzer]_vars
C20_Witness ==
  \E s \in Sessions :
    /\ log[s] = <<"E1", "analysed", "failed", "exhausted">>
    /\ analyzer.credibility_score = 2 * 97
    /\ atClose[s].final_score = [sum |-> 197, len |-> 2]
    /\ \E i \in ReportsOf(s) :
         backend[i].state = "http_200" /\ backend[i].score_de_credibilite = 98

====
